---- MODULE Spec2Model ----
(***************************************************************************)
(* Rate limiter of the bookmarks backend: the Redis client with its two    *)
(* Lua scripts (core/redis.py) and RedisRateLimiter.check                  *)
(* (core/rate_limiter.py), run by concurrent request tasks against one     *)
(* store.  Time is counted in whole seconds; the windows and the limits    *)
(* are scaled down (the source's 60 s / 86400 s and 30..300 / 250..4000).  *)
(* The classification of a request (get_operation_type, and its call in    *)
(* api/dependencies.py) has a specification of its own, ClassifySpec.       *)
(***************************************************************************)
EXTENDS Integers, Sequences, FiniteSets, TLC

\* ---------------------------------------------------------------- bounds
MaxClock == 4            \* the clock stops advancing here
MaxChecks == 3           \* check() calls started in one behaviour
MaxFaults == 1           \* store errors, closes and failed connects in one behaviour
MinuteWindow == 2        \* stands for the 60 of rate_limiter.py:114
DayWindow == 5           \* stands for the 86400 of rate_limiter.py:132
PatReadPerMinute == 2    \* stands for 120
PatWritePerMinute == 1   \* stands for 60
Auth0ReadPerMinute == 3  \* stands for 300
Auth0WritePerMinute == 2 \* stands for 90
SensitivePerMinute == 1  \* stands for 30
PatPerDay == 2           \* stands for 2000
Auth0PerDay == 3         \* stands for 4000
SensitivePerDay == 2     \* stands for 250
MaxCalls == 2            \* client operations called directly in one behaviour
MaxPathLen == 4          \* pieces in a request target

Users == {1, 2}
Tasks == {1, 2}

\* --------------------------------------------------------- classification
\* HTTP methods as the server hands them over, and one in lower case.
Methods == {"GET", "HEAD", "POST", "PATCH", "DELETE", "get"}

\* A path or a request target is the sequence of its pieces: path segments,
\* the "?" that opens the query string, a query parameter.
PathPieces == {"/bookmarks", "/fetch-metadata", "/1", "?", "x=1"}

Targets == UNION {[1..n -> PathPieces] : n \in 0..MaxPathLen}

SENSITIVE_ENDPOINTS == {<<"GET", <<"/bookmarks", "/fetch-metadata">>>>}

\* a classification that looks at the method first
MethodFirst(method, path) ==
    IF method = "GET" THEN "read"
    ELSE IF <<method, path>> \in SENSITIVE_ENDPOINTS THEN "sensitive"
    ELSE "write"

get_operation_type(method, path) ==
    IF <<method, path>> \in SENSITIVE_ENDPOINTS THEN "sensitive"
    ELSE IF method = "GET" THEN "read"
    ELSE "write"

\* a path that is the whole request target, query string included
WholeTarget(target) == target

\* request.url.path: the target up to its query string.
RECURSIVE url_path(_)
url_path(target) ==
    IF target = <<>> \/ Head(target) = "?" THEN <<>>
    ELSE <<Head(target)>> \o url_path(Tail(target))

\* ------------------------------------------------------- types and policy
AuthType == {"pat", "auth0"}

OperationType == {"read", "write", "sensitive"}

RateLimitConfig(per_minute, per_day) ==
    [requests_per_minute |-> per_minute, requests_per_day |-> per_day]

RateLimitResult(allowed, limit, remaining, reset, retry_after) ==
    [allowed |-> allowed, limit |-> limit, remaining |-> remaining,
     reset |-> reset, retry_after |-> retry_after]

\* a result variable that holds nothing yet
NoResult == RateLimitResult(FALSE, -1, -1, -1, -1)

ConfiguredPairs ==
    {<<"pat", "read">>, <<"pat", "write">>,
     <<"auth0", "read">>, <<"auth0", "write">>, <<"auth0", "sensitive">>}

RATE_LIMITS ==
    [p \in ConfiguredPairs |->
        CASE p = <<"pat", "read">> -> RateLimitConfig(PatReadPerMinute, PatPerDay)
          [] p = <<"pat", "write">> -> RateLimitConfig(PatWritePerMinute, PatPerDay)
          [] p = <<"auth0", "read">> -> RateLimitConfig(Auth0ReadPerMinute, Auth0PerDay)
          [] p = <<"auth0", "write">> -> RateLimitConfig(Auth0WritePerMinute, Auth0PerDay)
          [] p = <<"auth0", "sensitive">> ->
                RateLimitConfig(SensitivePerMinute, SensitivePerDay)]

\* The table of core/rate_limit_config.py, with the source's own numbers; no
\* check() of this model reads it.
rate_limit_config_RATE_LIMITS ==
    [p \in ConfiguredPairs |->
        CASE p = <<"pat", "read">> -> RateLimitConfig(240, 4000)
          [] p = <<"pat", "write">> -> RateLimitConfig(120, 4000)
          [] p = <<"auth0", "read">> -> RateLimitConfig(180, 4000)
          [] p = <<"auth0", "write">> -> RateLimitConfig(120, 4000)
          [] p = <<"auth0", "sensitive">> -> RateLimitConfig(30, 250)]

HasConfig(auth_type, operation_type) ==
    <<auth_type, operation_type>> \in DOMAIN RATE_LIMITS

Max(a, b) == IF a >= b THEN a ELSE b

\* ------------------------------------------------------------------ keys
DailyPools == {"general", "sensitive"}

\* a per-minute key that leaves the subject out
MinuteKeyWithoutUser(user_id, auth_type, operation_type) ==
    <<1, auth_type, operation_type>>

minute_key(user_id, auth_type, operation_type) ==
    <<user_id, auth_type, operation_type>>

\* a pool choice that counts WRITE with SENSITIVE
WritesInSensitivePool(operation_type) ==
    IF operation_type = "read" THEN "general" ELSE "sensitive"

\* a pool choice with one pool for every operation
OnePool(operation_type) == "general"

daily_pool(operation_type) ==
    IF operation_type = "sensitive" THEN "sensitive" ELSE "general"

day_key(user_id, pool) == <<user_id, pool>>

MinuteKeys == Users \X AuthType \X OperationType

DayKeys == Users \X DailyPools

Inputs == Users \X AuthType \X OperationType

\* ------------------------------------------------------ the store's keys
\* A sorted set is the ascending sequence of its members' scores: every
\* member carries a fresh uuid, so members never coincide.
NoZset == [members |-> <<>>, expire_at |-> 0]

NoCounter == [count |-> 0, expire_at |-> 0]

\* an eviction that spares the score equal to its upper end
EvictsBelow(members, lo, hi) ==
    SelectSeq(members, LAMBDA s : ~(lo <= s /\ s < hi))

\* an eviction that removes nothing
EvictsNothing(members, lo, hi) == members

ZREMRANGEBYSCORE(members, lo, hi) ==
    SelectSeq(members, LAMBDA s : ~(lo <= s /\ s <= hi))

\* a ZADD whose member is the bare timestamp, without the uuid: a second
\* request in the same second replaces the first
ZaddWithoutUuid(members, score) ==
    SelectSeq(members, LAMBDA s : s < score) \o <<score>>
        \o SelectSeq(members, LAMBDA s : s > score)

ZADD(members, score) ==
    SelectSeq(members, LAMBDA s : s <= score) \o <<score>>
        \o SelectSeq(members, LAMBDA s : s > score)

\* a sliding script that compares with <= and so admits one request too many
SlidingAdmitsAtLimit(z, now, window, limit, time) ==
    LET kept == ZREMRANGEBYSCORE(z.members, 0, now - window)
        count == Len(kept)
    IN  IF count <= limit
        THEN [key |-> [members |-> ZADD(kept, now), expire_at |-> time + window],
              reply |-> <<1, limit - count - 1, 0>>]
        ELSE [key |-> IF kept = <<>> THEN NoZset
                      ELSE [members |-> kept, expire_at |-> z.expire_at],
              reply |-> <<0, 0, IF kept # <<>> THEN (Head(kept) + window) - now ELSE 0>>]

\* a sliding script that answers without recording the admitted request
SlidingWithoutZadd(z, now, window, limit, time) ==
    LET kept == ZREMRANGEBYSCORE(z.members, 0, now - window)
        count == Len(kept)
    IN  IF count < limit
        THEN [key |-> IF kept = <<>> THEN NoZset
                      ELSE [members |-> kept, expire_at |-> time + window],
              reply |-> <<1, limit - count - 1, 0>>]
        ELSE [key |-> IF kept = <<>> THEN NoZset
                      ELSE [members |-> kept, expire_at |-> z.expire_at],
              reply |-> <<0, 0, IF kept # <<>> THEN (Head(kept) + window) - now ELSE 0>>]

\* a sliding script that never sets the expiry of its key
SlidingWithoutExpire(z, now, window, limit, time) ==
    LET kept == ZREMRANGEBYSCORE(z.members, 0, now - window)
        count == Len(kept)
    IN  IF count < limit
        THEN [key |-> [members |-> ZADD(kept, now), expire_at |-> z.expire_at],
              reply |-> <<1, limit - count - 1, 0>>]
        ELSE [key |-> IF kept = <<>> THEN NoZset
                      ELSE [members |-> kept, expire_at |-> z.expire_at],
              reply |-> <<0, 0, IF kept # <<>> THEN (Head(kept) + window) - now ELSE 0>>]

\* a script that counts per calendar window: it evicts what was admitted
\* before the start of the window `now` falls in
CalendarWindowScript(z, now, window, limit, time) ==
    LET kept == ZREMRANGEBYSCORE(z.members, 0, (now \div window) * window - 1)
        count == Len(kept)
    IN  IF count < limit
        THEN [key |-> [members |-> ZADD(kept, now), expire_at |-> time + window],
              reply |-> <<1, limit - count - 1, 0>>]
        ELSE [key |-> IF kept = <<>> THEN NoZset
                      ELSE [members |-> kept, expire_at |-> z.expire_at],
              reply |-> <<0, 0, IF kept # <<>> THEN (Head(kept) + window) - now ELSE 0>>]

\* SLIDING_WINDOW_SCRIPT on the key's value z, run by the store at `time`.
SLIDING_WINDOW_SCRIPT(z, now, window, limit, time) ==
    LET kept == ZREMRANGEBYSCORE(z.members, 0, now - window)
        count == Len(kept)
    IN  IF count < limit
        THEN [key |-> [members |-> ZADD(kept, now), expire_at |-> time + window],
              reply |-> <<1, limit - count - 1, 0>>]
        ELSE [key |-> IF kept = <<>> THEN NoZset
                      ELSE [members |-> kept, expire_at |-> z.expire_at],
              reply |-> <<0, 0, IF kept # <<>> THEN (Head(kept) + window) - now ELSE 0>>]

\* TTL of a key that expires at expire_at, asked in the second `time`.  Redis
\* reports the time left rounded to the nearest second: asked in the later
\* half of the second (late) it reports one less, and 0 in the key's last
\* half second (the case rate_limiter.py:241 provides for).
TTL(expire_at, time, late) ==
    IF late THEN expire_at - time - 1 ELSE expire_at - time

\* a fixed-window script that allows one call more than the limit
FixedAllowsOneMore(c, limit, window, time, late) ==
    LET count == c.count + 1
        expire_at == IF count = 1 THEN time + window ELSE c.expire_at
        ttl == IF count = 1 THEN window ELSE TTL(expire_at, time, late)
    IN  [key |-> [count |-> count, expire_at |-> expire_at],
         reply |-> IF count <= limit + 1 THEN <<1, limit + 1 - count, ttl, 0>>
                   ELSE <<0, 0, ttl, ttl>>]

\* a fixed-window script that sets the expiry on every call
FixedScriptRenewsExpiry(c, limit, window, time, late) ==
    LET count == c.count + 1
    IN  [key |-> [count |-> count, expire_at |-> time + window],
         reply |-> IF count <= limit THEN <<1, limit - count, window, 0>>
                   ELSE <<0, 0, window, window>>]

\* FIXED_WINDOW_SCRIPT on the key's value c, run by the store at `time`.
FIXED_WINDOW_SCRIPT(c, limit, window, time, late) ==
    LET count == c.count + 1
        expire_at == IF count = 1 THEN time + window ELSE c.expire_at
        ttl == IF count = 1 THEN window ELSE TTL(expire_at, time, late)
    IN  [key |-> [count |-> count, expire_at |-> expire_at],
         reply |-> IF count <= limit THEN <<1, limit - count, ttl, 0>>
                   ELSE <<0, 0, ttl, ttl>>]

\* Redis drops a key once its expiry instant has come.
ExpireZset(z, time) ==
    IF z.expire_at # 0 /\ z.expire_at <= time THEN NoZset ELSE z

ExpireCounter(c, time) ==
    IF c.expire_at # 0 /\ c.expire_at <= time THEN NoCounter ELSE c

\* The plain keys of the store, for get / setex / delete.
StringKeys == {"k1", "k2"}

StringValues == {"v"}

NoString == [value |-> <<>>, expire_at |-> 0]

ExpireString(v, time) ==
    IF v.expire_at # 0 /\ v.expire_at <= time THEN NoString ELSE v

\* The scripts of the client, by the name of their handle.
Scripts == {"sliding", "fixed"}

\* ------------------------------------------------ the limiter's results
\* evalsha's None is the empty reply.
None == <<>>

\* a limiter that denies when the store is unavailable
FailClosed(max_requests) ==
    RateLimitResult(FALSE, max_requests, 0, 0, 1)

FailOpen(max_requests) ==
    RateLimitResult(TRUE, max_requests, max_requests, 0, 0)

\* a limiter that denies the pairs without policy
UnconfiguredDenied == RateLimitResult(FALSE, 0, 0, 0, 1)

Unconfigured == RateLimitResult(TRUE, 0, 0, 0, 0)

\* a per-minute check that denies when evalsha returns None
SlidingDeniesOnNone(reply, max_requests, window_seconds, now) ==
    IF reply = None THEN RateLimitResult(FALSE, max_requests, 0, 0, 1)
    ELSE RateLimitResult(reply[1] # 0, max_requests, Max(0, reply[2]),
                         now + window_seconds,
                         IF reply[1] = 0 THEN Max(0, reply[3]) ELSE 0)

\* _check_sliding_window, from the reply of evalsha on.
SlidingResult(reply, max_requests, window_seconds, now) ==
    IF reply = None THEN FailOpen(max_requests)
    ELSE RateLimitResult(reply[1] # 0, max_requests, Max(0, reply[2]),
                         now + window_seconds,
                         IF reply[1] = 0 THEN Max(0, reply[3]) ELSE 0)

\* a daily result whose reset is now + ttl whatever the ttl
FixedResetFromTtl(reply, max_requests, window_seconds, now) ==
    IF reply = None THEN FailOpen(max_requests)
    ELSE RateLimitResult(reply[1] # 0, max_requests, Max(0, reply[2]),
                         now + reply[3],
                         IF reply[1] = 0 THEN Max(0, reply[4]) ELSE 0)

\* _check_fixed_window, from the reply of evalsha on.
FixedResult(reply, max_requests, window_seconds, now) ==
    IF reply = None THEN FailOpen(max_requests)
    ELSE RateLimitResult(reply[1] # 0, max_requests, Max(0, reply[2]),
                         IF reply[3] > 0 THEN now + reply[3]
                         ELSE now + window_seconds,
                         IF reply[1] = 0 THEN Max(0, reply[4]) ELSE 0)

\* check() returns the per-minute result at once when it denies
NeverShortCircuit(minute_result) == FALSE

ShortCircuit(minute_result) == ~minute_result.allowed

\* a check() that returns the per-minute result whatever the daily one
AlwaysMinuteResult(minute_result, day_result) == minute_result

\* what check() returns once both windows have answered
CheckReturn(minute_result, day_result) ==
    IF ~day_result.allowed THEN day_result ELSE minute_result

\* ----------------------------------------------------------------- state
VARIABLES
    clock,               \* the time, in seconds
    enabled,             \* RedisClient._enabled
    global_client,       \* _state.client is the client (FALSE: None)
    client,              \* RedisClient._client is not None
    sliding_window_sha,  \* RedisClient._sliding_window_sha is not None
    fixed_window_sha,    \* RedisClient._fixed_window_sha is not None
    conn_pc,             \* where connect() stands
    zset,                \* the store's per-minute sorted sets
    counter,             \* the store's daily counters
    task,                \* the request tasks running check()
    returned,            \* the check() that returned in the step just taken
    sh_zset,             \* the store as it would be had only the watched
    sh_counter,          \*   requests been made
    hist,                \* per minute key: what the sliding script admitted
    day_hist,            \* per daily key: the fixed scripts run in its window
    day_calls,           \* per input: fixed scripts run in the open daily window
    day_allowed,         \*   and those of them that answered allowed
    issued,              \* check() calls started
    faults,              \* faults injected
    env,                 \* the environment of this behaviour: its scope (the
                         \*   requests made), its watch (the requests mirrored
                         \*   into sh_zset / sh_counter), its horizon (how far
                         \*   the clock runs) and the faults that may strike
    request,             \* the request classified last, and its class
    strings,             \* the store's plain keys
    script_cache,        \* the scripts the store has loaded
    called               \* the client operation called last, and its result

vars ==
    <<clock, enabled, global_client, client, sliding_window_sha,
      fixed_window_sha, conn_pc, zset, counter, task, returned, sh_zset, sh_counter,
      hist, day_hist, day_calls, day_allowed,
      issued, faults, env, request, strings, script_cache, called>>

directVars == <<strings, script_cache, called>>

clientVars ==
    <<enabled, global_client, client, sliding_window_sha, fixed_window_sha, conn_pc>>

storeVars ==
    <<zset, counter, sh_zset, sh_counter, hist, day_hist, day_calls, day_allowed>>

is_connected == client

IdleTask ==
    [pc |-> "idle", user_id |-> 1, auth_type |-> "auth0",
     operation_type |-> "read", now |-> 0,
     closed |-> FALSE, minute_error |-> FALSE, minute_before |-> 0,
     minute_reply |-> None, minute_result |-> NoResult, sh_minute |-> NoResult]

\* `returned` when the step just taken returned from no check()
NoReturn ==
    [user_id |-> 1, auth_type |-> "auth0", operation_type |-> "read", now |-> 0,
     minute_reply |-> None, minute_result |-> NoResult,
     day_reply |-> None, day_result |-> NoResult,
     minute_error |-> FALSE, day_error |-> FALSE, minute_before |-> 0,
     result |-> NoResult, sh_result |-> NoResult, path |-> "none",
     dependency |-> [raised |-> FALSE, error |-> NoResult,
                     rate_limit_info |-> <<>>]]

\* `called` when no client operation has been called
NoCall == [op |-> "none", connected |-> FALSE, count |-> 0, result |-> FALSE]

\* `request` when nothing has been classified
NoRequest ==
    [by |-> "none", method |-> "GET", target |-> <<>>, path |-> <<>>,
     operation_type |-> "read"]

\* Of the sliding scripts run on a key: the timestamps admitted, in the order
\* of admission; the latest timestamp seen; whether the timestamps came in
\* non-decreasing order; whether every script ran in the second in which its
\* check() read the clock; the time now + retry_after of the last denial
\* replied since the last admission (-1: none); whether a check has been
\* admitted after such a denial.
NoHist ==
    [admitted |-> <<>>, last_now |-> 0, in_order |-> TRUE, punctual |-> TRUE,
     retry_at |-> -1, hint_met |-> FALSE]

\* Of the fixed scripts run on a key since the first of them, less than
\* DayWindow ago: how many, and when the first ran.
NoDayHist == [calls |-> 0, opened |-> 0]

Environment(scope, watch, tasks, horizon, fault_budget, started) ==
    [scope |-> scope, watch |-> watch, tasks |-> tasks, horizon |-> horizon,
     faults |-> fault_budget, started |-> started]

\* The environments a behaviour is drawn from.  `started`: the application
\* has already run connect() and set_redis_client() with success.
Environments ==
    {\* one key, over time
     Environment({<<1, "auth0", "sensitive">>}, {}, {1, 2}, MaxClock, 0, TRUE),
     \* one key, with faults
     Environment({<<1, "pat", "read">>}, {}, {1}, 1, MaxFaults, FALSE),
     \* two subjects
     Environment({<<1, "pat", "read">>, <<2, "pat", "read">>},
                 {<<2, "pat", "read">>}, {1, 2}, 1, 0, TRUE),
     \* READ and WRITE of one subject
     Environment({<<1, "pat", "read">>, <<1, "pat", "write">>}, {}, {1},
                 MinuteWindow, 0, TRUE),
     \* the two daily pools of one subject
     Environment({<<1, "pat", "write">>, <<1, "auth0", "sensitive">>},
                 {<<1, "auth0", "sensitive">>}, {1}, MinuteWindow, 0, TRUE),
     Environment({<<1, "pat", "read">>, <<1, "pat", "write">>,
                  <<1, "auth0", "sensitive">>},
                 {<<1, "pat", "read">>, <<1, "pat", "write">>}, {1},
                 MinuteWindow, 0, TRUE),
     \* the two auth classes of one subject
     Environment({<<1, "pat", "write">>, <<1, "auth0", "write">>}, {}, {1},
                 MinuteWindow, 0, TRUE),
     \* a pair without policy
     Environment({<<1, "pat", "sensitive">>, <<1, "auth0", "sensitive">>}, {}, {1},
                 1, MaxFaults, FALSE)}

InitIn(environments) ==
    /\ clock = 0
    /\ env \in environments
    /\ enabled \in (IF env.started THEN {TRUE} ELSE BOOLEAN)
    /\ global_client = env.started
    /\ client = env.started
    /\ sliding_window_sha = env.started
    /\ fixed_window_sha = env.started
    /\ conn_pc = "idle"
    /\ zset = [k \in MinuteKeys |-> NoZset]
    /\ counter = [k \in DayKeys |-> NoCounter]
    /\ sh_zset = [k \in MinuteKeys |-> NoZset]
    /\ sh_counter = [k \in DayKeys |-> NoCounter]
    /\ task = [t \in Tasks |-> IdleTask]
    /\ returned = NoReturn
    /\ hist = [k \in MinuteKeys |-> NoHist]
    /\ day_hist = [k \in DayKeys |-> NoDayHist]
    /\ day_calls = [k \in Inputs |-> 0]
    /\ day_allowed = [k \in Inputs |-> 0]
    /\ issued = 0
    /\ faults = 0
    /\ request = NoRequest
    /\ strings = [k \in StringKeys |-> NoString]
    /\ script_cache = IF env.started THEN Scripts ELSE {}
    /\ called = NoCall

Init == InitIn(Environments)

\* ---------------------------------------------------- check_rate_limit
\* a dependency that stores the rate limit info before it looks at the result
StoresInfoFirst(result) ==
    [raised |-> ~result.allowed,
     error |-> IF ~result.allowed THEN result ELSE NoResult,
     rate_limit_info |-> <<result.limit, result.remaining, result.reset>>]

\* check_rate_limit from the return of check() on: whether it raises
\* RateLimitExceededError, the result the error carries, and what it leaves
\* in request.state.rate_limit_info (<<>>: unset).
AfterCheck(result) ==
    IF ~result.allowed
    THEN [raised |-> TRUE, error |-> result, rate_limit_info |-> <<>>]
    ELSE [raised |-> FALSE, error |-> NoResult,
          rate_limit_info |-> <<result.limit, result.remaining, result.reset>>]

\* --------------------------------------------------------------- check()
\* What a returning check() leaves in `returned`: its arguments, its locals,
\* the result, the result on the shadow store, the return taken, and what
\* check_rate_limit, which called it, makes of the result.
Return(tk, path, day_reply, day_result, result, sh_result) ==
    [user_id |-> tk.user_id, auth_type |-> tk.auth_type,
     operation_type |-> tk.operation_type, now |-> tk.now,
     minute_reply |-> tk.minute_reply, minute_result |-> tk.minute_result,
     day_reply |-> day_reply, day_result |-> day_result,
     minute_error |-> tk.minute_error, day_error |-> FALSE,
     minute_before |-> tk.minute_before,
     result |-> result, sh_result |-> sh_result, path |-> path,
     dependency |-> AfterCheck(result)]

\* the conditions under which _check_sliding_window and _check_fixed_window
\* get as far as sending their evalsha
SlidingCallSent == global_client /\ sliding_window_sha /\ client

\* a fixed-window call sent without looking at the script handle
FixedSentWithoutSha == global_client /\ client

FixedCallSent == global_client /\ fixed_window_sha /\ client

\* How an evalsha in flight ends: the script runs and its reply arrives; the
\* call fails before the store has run the script; the script runs and the
\* reply is lost.  The last two raise RedisError, which evalsha turns into
\* None.
Outcomes == {"reply", "lost", "dropped"}

\* the call ended in a store error on a client that was still open
Failed(tk, outcome) == outcome # "reply" /\ ~tk.closed

\* A call answers with a reply only on a client that is still open; a call
\* that ends otherwise on an open client is a fault.
Ends(tk, outcome) ==
    /\ tk.closed => outcome # "reply"
    /\ (outcome # "reply" /\ ~tk.closed) => faults < env.faults
    /\ faults' = IF outcome # "reply" /\ ~tk.closed THEN faults + 1 ELSE faults

\* check() from the return of _check_sliding_window (tk holds its result) to
\* the await in _check_fixed_window, or to the return of check().
AfterSliding(t, tk) ==
    LET config == RATE_LIMITS[<<tk.auth_type, tk.operation_type>>]
        day_result == FailOpen(config.requests_per_day)
    IN  IF ShortCircuit(tk.minute_result)
        THEN /\ returned' =
                  Return(tk, "minute_denied", None, NoResult, tk.minute_result,
                         IF ~tk.sh_minute.allowed THEN tk.sh_minute ELSE NoResult)
             /\ task' = [task EXCEPT ![t] = IdleTask]
        ELSE IF FixedCallSent
             THEN /\ task' = [task EXCEPT ![t] = [tk EXCEPT !.pc = "fixed"]]
                  /\ returned' = NoReturn
             ELSE /\ returned' =
                       Return(tk, "passed", None, day_result,
                              CheckReturn(tk.minute_result, day_result),
                              IF ~tk.sh_minute.allowed THEN tk.sh_minute
                              ELSE CheckReturn(tk.sh_minute, day_result))
                  /\ task' = [task EXCEPT ![t] = IdleTask]

\* check() up to its first await: the policy lookup, the test of the global
\* client, the reading of the clock, and _check_sliding_window up to its
\* evalsha.  Free tasks are alike: a call takes the first.
Start(t, user_id, auth_type, operation_type) ==
    /\ t \in env.tasks
    /\ task[t].pc = "idle"
    /\ \A t2 \in Tasks : t2 < t => task[t2].pc # "idle"
    /\ issued < MaxChecks
    /\ <<user_id, auth_type, operation_type>> \in env.scope
    /\ issued' = issued + 1
    /\ LET tk == [IdleTask EXCEPT !.user_id = user_id, !.auth_type = auth_type,
                                  !.operation_type = operation_type]
       IN  IF ~HasConfig(auth_type, operation_type)
           THEN /\ returned' = Return(tk, "unconfigured", None, NoResult,
                                      Unconfigured, Unconfigured)
                /\ UNCHANGED task
           ELSE LET config == RATE_LIMITS[<<auth_type, operation_type>>]
                    open == FailOpen(config.requests_per_minute)
                IN  IF ~global_client \/ ~is_connected
                    THEN /\ returned' =
                              Return(tk, "fail_open", None, NoResult, open, open)
                         /\ UNCHANGED task
                    ELSE IF SlidingCallSent
                         THEN /\ task' = [task EXCEPT ![t] =
                                     [tk EXCEPT !.pc = "sliding", !.now = clock]]
                              /\ returned' = NoReturn
                         ELSE AfterSliding(t, [tk EXCEPT !.now = clock,
                                                         !.minute_before =
                                                             Len(zset[minute_key(user_id, auth_type, operation_type)].members),
                                                         !.minute_result = open,
                                                         !.sh_minute = open])
    /\ UNCHANGED <<clock, clientVars, storeVars, faults, env, request, directVars>>

\* The per-minute evalsha ends, and check() runs on to its return or to the
\* daily evalsha.
SlidingStep(t, outcome) ==
    /\ task[t].pc = "sliding"
    /\ LET tk == task[t]
           input == <<tk.user_id, tk.auth_type, tk.operation_type>>
           config == RATE_LIMITS[<<tk.auth_type, tk.operation_type>>]
           key == minute_key(tk.user_id, tk.auth_type, tk.operation_type)
           runs == outcome # "lost"
           out == SLIDING_WINDOW_SCRIPT(zset[key], tk.now, MinuteWindow,
                                        config.requests_per_minute, clock)
           sh_out == SLIDING_WINDOW_SCRIPT(sh_zset[key], tk.now, MinuteWindow,
                                           config.requests_per_minute, clock)
           reply == IF outcome = "reply" THEN out.reply ELSE None
           minute_result ==
               SlidingResult(reply, config.requests_per_minute, MinuteWindow,
                             tk.now)
           sh_minute ==
               SlidingResult(IF outcome = "reply" THEN sh_out.reply ELSE None,
                             config.requests_per_minute, MinuteWindow, tk.now)
           h == hist[key]
       IN  /\ Ends(tk, outcome)
           /\ zset' = IF runs THEN [zset EXCEPT ![key] = out.key] ELSE zset
           /\ sh_zset' = IF runs /\ input \in env.watch
                         THEN [sh_zset EXCEPT ![key] = sh_out.key] ELSE sh_zset
           /\ hist' = IF runs
                      THEN [hist EXCEPT ![key] =
                              [admitted |-> IF out.reply[1] = 1
                                            THEN Append(h.admitted, tk.now)
                                            ELSE h.admitted,
                               last_now |-> Max(h.last_now, tk.now),
                               in_order |-> h.in_order /\ tk.now >= h.last_now,
                               punctual |-> h.punctual /\ tk.now = clock,
                               retry_at |->
                                   IF out.reply[1] = 1 THEN -1
                                   ELSE IF outcome = "reply"
                                        THEN tk.now + minute_result.retry_after
                                        ELSE h.retry_at,
                               hint_met |->
                                   \/ h.hint_met
                                   \/ out.reply[1] = 1 /\ h.retry_at # -1]]
                      ELSE hist
           /\ AfterSliding(t, [tk EXCEPT !.minute_reply = reply,
                                         !.minute_error = Failed(tk, outcome),
                                         !.minute_before = Len(zset[key].members),
                                         !.minute_result = minute_result,
                                         !.sh_minute = sh_minute])
    /\ UNCHANGED <<clock, clientVars, counter, sh_counter, day_hist, day_calls,
                   day_allowed, issued, env, request, directVars>>

\* The daily evalsha ends and check() returns.  late: the script runs in the
\* later half of the second.
FixedStep(t, outcome, late) ==
    /\ task[t].pc = "fixed"
    /\ LET tk == task[t]
           input == <<tk.user_id, tk.auth_type, tk.operation_type>>
           config == RATE_LIMITS[<<tk.auth_type, tk.operation_type>>]
           key == day_key(tk.user_id, daily_pool(tk.operation_type))
           runs == outcome # "lost"
           out == FIXED_WINDOW_SCRIPT(counter[key], config.requests_per_day,
                                      DayWindow, clock, late)
           sh_out == FIXED_WINDOW_SCRIPT(sh_counter[key], config.requests_per_day,
                                         DayWindow, clock, late)
           reply == IF outcome = "reply" THEN out.reply ELSE None
           day_result ==
               FixedResult(reply, config.requests_per_day, DayWindow, tk.now)
           sh_day ==
               FixedResult(IF outcome = "reply" THEN sh_out.reply ELSE None,
                           config.requests_per_day, DayWindow, tk.now)
           dh == day_hist[key]
       IN  /\ Ends(tk, outcome)
           /\ late => outcome = "reply"
           /\ counter' = IF runs THEN [counter EXCEPT ![key] = out.key] ELSE counter
           /\ sh_counter' = IF runs /\ input \in env.watch /\ tk.sh_minute.allowed
                            THEN [sh_counter EXCEPT ![key] = sh_out.key]
                            ELSE sh_counter
           /\ day_hist' = IF runs
                          THEN [day_hist EXCEPT ![key] =
                                  [calls |-> dh.calls + 1,
                                   opened |-> IF dh.calls = 0 THEN clock
                                              ELSE dh.opened]]
                          ELSE day_hist
           /\ day_calls' = IF runs THEN [day_calls EXCEPT ![input] = @ + 1]
                           ELSE day_calls
           /\ day_allowed' = IF runs /\ out.reply[1] = 1
                             THEN [day_allowed EXCEPT ![input] = @ + 1]
                             ELSE day_allowed
           /\ returned' =
                 [Return(tk, IF ~day_result.allowed THEN "day_denied" ELSE "passed",
                         reply, day_result, CheckReturn(tk.minute_result, day_result),
                         IF ~tk.sh_minute.allowed THEN tk.sh_minute
                         ELSE CheckReturn(tk.sh_minute, sh_day))
                  EXCEPT !.day_error = Failed(tk, outcome)]
           /\ task' = [task EXCEPT ![t] = IdleTask]
    /\ UNCHANGED <<clock, clientVars, zset, sh_zset, hist, issued, env, request, directVars>>

\* ------------------------------------------------------------ the client
set_redis_client(c) ==
    /\ returned' = NoReturn
    /\ global_client # c
    /\ ~c => faults < env.faults
    /\ faults' = IF c THEN faults ELSE faults + 1
    /\ global_client' = c
    /\ UNCHANGED <<clock, enabled, client, sliding_window_sha, fixed_window_sha,
                   conn_pc, storeVars, task, issued, env, request, directVars>>

\* connect() up to its ping.
Connect ==
    /\ returned' = NoReturn
    /\ conn_pc = "idle"
    /\ ~client
    /\ IF ~enabled THEN UNCHANGED <<client, conn_pc>>
       ELSE client' = TRUE /\ conn_pc' = "ping"
    /\ UNCHANGED <<clock, enabled, global_client, sliding_window_sha,
                   fixed_window_sha, storeVars, task, issued, faults, env, request, directVars>>

\* The ping answers; on success _load_scripts sends its first script_load.
ConnectPing(ok) ==
    /\ returned' = NoReturn
    /\ conn_pc = "ping"
    /\ ~ok => faults < env.faults
    /\ faults' = IF ok THEN faults ELSE faults + 1
    /\ IF ok THEN conn_pc' = "load_sliding" /\ UNCHANGED client
       ELSE conn_pc' = "idle" /\ client' = FALSE
    /\ UNCHANGED <<clock, enabled, global_client, sliding_window_sha,
                   fixed_window_sha, storeVars, task, issued, env, request, directVars>>

\* _load_scripts: the first script_load answers.
LoadSliding(ok) ==
    /\ returned' = NoReturn
    /\ conn_pc = "load_sliding"
    /\ ~ok => faults < env.faults
    /\ faults' = IF ok THEN faults ELSE faults + 1
    /\ IF ok THEN conn_pc' = "load_fixed" /\ sliding_window_sha' = TRUE
       ELSE conn_pc' = "idle" /\ UNCHANGED sliding_window_sha
    /\ script_cache' = IF ok THEN script_cache \cup {"sliding"} ELSE script_cache
    /\ UNCHANGED <<clock, enabled, global_client, client, fixed_window_sha,
                   storeVars, task, issued, env, request, strings, called>>

\* _load_scripts: the second script_load answers.
LoadFixed(ok) ==
    /\ returned' = NoReturn
    /\ conn_pc = "load_fixed"
    /\ ~ok => faults < env.faults
    /\ faults' = IF ok THEN faults ELSE faults + 1
    /\ conn_pc' = "idle"
    /\ fixed_window_sha' = (ok \/ fixed_window_sha)
    /\ script_cache' = IF ok THEN script_cache \cup {"fixed"} ELSE script_cache
    /\ UNCHANGED <<clock, enabled, global_client, client, sliding_window_sha,
                   storeVars, task, issued, env, request, strings, called>>

\* close(), called once connect() has returned.  The calls in flight are on
\* the client it closes.
Close ==
    /\ returned' = NoReturn
    /\ conn_pc = "idle"
    /\ client
    /\ faults < env.faults
    /\ faults' = faults + 1
    /\ client' = FALSE
    /\ task' = [t \in Tasks |->
                  IF task[t].pc = "idle" THEN task[t]
                  ELSE [task[t] EXCEPT !.closed = TRUE]]
    /\ UNCHANGED <<clock, enabled, global_client, sliding_window_sha,
                   fixed_window_sha, conn_pc, storeVars, issued, env, request, directVars>>

\* ------------------------------------------------------------------ time
DayKeyOf(input) == <<input[1], IF input[3] = "sensitive" THEN "sensitive" ELSE "general">>

\* the daily window that opened at dh.opened is over at `time`
WindowOver(dh, time) == dh.calls > 0 /\ dh.opened + DayWindow <= time

Tick ==
    /\ returned' = NoReturn
    /\ clock < env.horizon
    /\ clock' = clock + 1
    /\ zset' = [k \in MinuteKeys |-> ExpireZset(zset[k], clock + 1)]
    /\ sh_zset' = [k \in MinuteKeys |-> ExpireZset(sh_zset[k], clock + 1)]
    /\ counter' = [k \in DayKeys |-> ExpireCounter(counter[k], clock + 1)]
    /\ sh_counter' = [k \in DayKeys |-> ExpireCounter(sh_counter[k], clock + 1)]
    /\ day_hist' = [k \in DayKeys |->
          IF WindowOver(day_hist[k], clock + 1) THEN NoDayHist ELSE day_hist[k]]
    /\ day_calls' = [i \in Inputs |->
          IF WindowOver(day_hist[DayKeyOf(i)], clock + 1) THEN 0 ELSE day_calls[i]]
    /\ day_allowed' = [i \in Inputs |->
          IF WindowOver(day_hist[DayKeyOf(i)], clock + 1) THEN 0
          ELSE day_allowed[i]]
    /\ strings' = [k \in StringKeys |-> ExpireString(strings[k], clock + 1)]
    /\ UNCHANGED <<clientVars, task, hist, issued, faults, env, request,
                   script_cache, called>>

Next ==
    \/ \E t \in Tasks, u \in Users, a \in AuthType, o \in OperationType :
          Start(t, u, a, o)
    \/ \E t \in Tasks, outcome \in Outcomes : SlidingStep(t, outcome)
    \/ \E t \in Tasks, outcome \in Outcomes, late \in BOOLEAN :
          FixedStep(t, outcome, late)
    \/ \E c \in BOOLEAN : set_redis_client(c)
    \/ Connect
    \/ \E ok \in BOOLEAN : ConnectPing(ok)
    \/ \E ok \in BOOLEAN : LoadSliding(ok)
    \/ \E ok \in BOOLEAN : LoadFixed(ok)
    \/ Close
    \/ Tick

Spec == Init /\ [][Next]_vars

\* One subject on one key, a connected store without faults, and a clock
\* that runs on for a daily window and more: time passes whatever else
\* happens.
ExpiryEnvironment ==
    Environment({<<1, "auth0", "sensitive">>}, {}, {1}, DayWindow + MinuteWindow,
                0, TRUE)

ExpiryInit == InitIn({ExpiryEnvironment})

ExpiryNext ==
    \/ \E t \in Tasks, u \in Users, a \in AuthType, o \in OperationType :
          Start(t, u, a, o)
    \/ \E t \in Tasks, outcome \in Outcomes : SlidingStep(t, outcome)
    \/ \E t \in Tasks, outcome \in Outcomes, late \in BOOLEAN :
          FixedStep(t, outcome, late)
    \/ Tick

ExpirySpec == ExpiryInit /\ [][ExpiryNext]_vars /\ WF_vars(Tick)

\* ------------------------------------------------- classifying a request
\* A behaviour classifies one request.
\* get_operation_type applied to a method and a path.
GetOperationType ==
    /\ request.by = "none"
    /\ \E method \in Methods, path \in Targets :
          request' = [by |-> "get_operation_type", method |-> method,
                      target |-> path, path |-> path,
                      operation_type |-> get_operation_type(method, path)]
    /\ UNCHANGED <<clock, clientVars, storeVars, task, returned, issued, faults,
                   env, directVars>>

\* check_rate_limit up to its call of check(): the class of the request.
check_rate_limit ==
    /\ request.by = "none"
    /\ \E method \in Methods, target \in Targets :
          request' = [by |-> "check_rate_limit", method |-> method,
                      target |-> target, path |-> url_path(target),
                      operation_type |->
                          get_operation_type(method, url_path(target))]
    /\ UNCHANGED <<clock, clientVars, storeVars, task, returned, issued, faults,
                   env, directVars>>

ClassifyInit ==
    /\ Init
    /\ env = Environment({<<1, "auth0", "sensitive">>}, {}, {1, 2}, MaxClock, 0, TRUE)

ClassifyNext ==
    \/ GetOperationType
    \/ check_rate_limit

ClassifySpec == ClassifyInit /\ [][ClassifyNext]_vars

\* ------------------------------------------- the client's operations
\* What the operations of RedisClient share: the test of _client at the
\* call, the RedisError that each turns into its sentinel, and the record of
\* the call.  An operation on a client without _client sends nothing.
ClientCall(op, result, outcome) ==
    /\ called.count < MaxCalls
    /\ ~client => outcome = "reply"
    /\ (client /\ outcome # "reply") => faults < env.faults
    /\ faults' = IF client /\ outcome # "reply" THEN faults + 1 ELSE faults
    /\ called' = [op |-> op, connected |-> client, count |-> called.count + 1,
                  result |-> result]
    /\ returned' = NoReturn
    /\ UNCHANGED <<clock, clientVars, sh_zset, sh_counter, hist, day_hist,
                   day_calls, day_allowed, task, issued, env, request>>

\* operations that send their command whatever _client is
RunsUnguarded(outcome) == outcome # "lost"

\* the store runs the command of a call that ends so
Runs(outcome) == client /\ outcome # "lost"

ping(outcome) ==
    /\ ClientCall("ping", client /\ outcome = "reply", outcome)
    /\ UNCHANGED <<zset, counter, strings, script_cache>>

get(key, outcome) ==
    /\ ClientCall("get",
                  IF client /\ outcome = "reply" THEN strings[key].value ELSE None,
                  outcome)
    /\ UNCHANGED <<zset, counter, strings, script_cache>>

setex(key, seconds, value, outcome) ==
    /\ ClientCall("setex", client /\ outcome = "reply", outcome)
    /\ strings' = IF Runs(outcome)
                  THEN [strings EXCEPT ![key] =
                          [value |-> <<value>>, expire_at |-> clock + seconds]]
                  ELSE strings
    /\ UNCHANGED <<zset, counter, script_cache>>

delete(key, outcome) ==
    /\ ClientCall("delete", client /\ outcome = "reply", outcome)
    /\ strings' = IF Runs(outcome) THEN [strings EXCEPT ![key] = NoString]
                  ELSE strings
    /\ UNCHANGED <<zset, counter, script_cache>>

\* evalsha called directly, with the arguments check() gives it for PAT READ
\* of subject 1.  A sha the store does not know is a store error.
evalsha(sha, outcome) ==
    LET minute == minute_key(1, "pat", "read")
        day == day_key(1, daily_pool("read"))
        known == sha \in script_cache
        sliding == SLIDING_WINDOW_SCRIPT(zset[minute], clock, MinuteWindow,
                                         PatReadPerMinute, clock)
        fixed == FIXED_WINDOW_SCRIPT(counter[day], PatPerDay, DayWindow, clock,
                                     FALSE)
        reply == IF sha = "sliding" THEN sliding.reply ELSE fixed.reply
    IN  /\ ClientCall("evalsha",
                      IF client /\ known /\ outcome = "reply" THEN reply ELSE None,
                      outcome)
        /\ zset' = IF Runs(outcome) /\ known /\ sha = "sliding"
                   THEN [zset EXCEPT ![minute] = sliding.key] ELSE zset
        /\ counter' = IF Runs(outcome) /\ known /\ sha = "fixed"
                      THEN [counter EXCEPT ![day] = fixed.key] ELSE counter
        /\ UNCHANGED <<strings, script_cache>>

script_load(script, outcome) ==
    /\ ClientCall("script_load",
                  IF client /\ outcome = "reply" THEN <<script>> ELSE None,
                  outcome)
    /\ script_cache' = IF Runs(outcome) THEN script_cache \cup {script}
                       ELSE script_cache
    /\ UNCHANGED <<zset, counter, strings>>

\* a client on its own: no request task runs
ClientEnvironment == Environment({}, {}, {}, 1, MaxFaults, FALSE)

ClientInit == InitIn({ClientEnvironment})

ClientNext ==
    \/ Connect
    \/ \E ok \in BOOLEAN : ConnectPing(ok)
    \/ \E ok \in BOOLEAN : LoadSliding(ok)
    \/ \E ok \in BOOLEAN : LoadFixed(ok)
    \/ Close
    \/ Tick
    \/ \E outcome \in Outcomes : ping(outcome)
    \/ \E key \in StringKeys, outcome \in Outcomes : get(key, outcome)
    \/ \E key \in StringKeys, seconds \in 1..2, value \in StringValues,
          outcome \in Outcomes : setex(key, seconds, value, outcome)
    \/ \E key \in StringKeys, outcome \in Outcomes : delete(key, outcome)
    \/ \E sha \in Scripts \cup {"sha"}, outcome \in Outcomes : evalsha(sha, outcome)
    \/ \E script \in Scripts, outcome \in Outcomes : script_load(script, outcome)

ClientSpec == ClientInit /\ [][ClientNext]_vars

\* ================================================================ claims
ConfiguredKeys == {k \in MinuteKeys : HasConfig(k[2], k[3])}

PerMinute(k) == RATE_LIMITS[<<k[2], k[3]>>].requests_per_minute

PerDay(k) == RATE_LIMITS[<<k[2], k[3]>>].requests_per_day

KeyOf(r) == <<r.user_id, r.auth_type, r.operation_type>>

\* how many of the admitted timestamps lie in the window [t0, t0 + MinuteWindow)
InWindow(admitted, t0) ==
    Len(SelectSeq(admitted, LAMBDA s : t0 <= s /\ s < t0 + MinuteWindow))

MinuteCapKept(k) ==
    \A t0 \in 0..MaxClock : InWindow(hist[k].admitted, t0) <= PerMinute(k)

DayCapKept(k) == day_allowed[k] <= PerDay(k)

\* C1, as the claim states it: whatever the interleaving of the check() calls
\* on a key, no window of MinuteWindow seconds holds the timestamps of more
\* than requests_per_minute admitted calls, and no daily window admits more
\* than requests_per_day.
C1_AsStated ==
    \A k \in ConfiguredKeys : MinuteCapKept(k) /\ DayCapKept(k)

\* C1, amended: the per-minute cap holds on every key each of whose sliding
\* scripts ran in the second its check() had read the clock in (a check()
\* delayed past that second can reach the store after the key has expired,
\* or after a later timestamp has evicted the entries of its window); the
\* daily cap holds under every interleaving.
C1_AdmissionsCapped ==
    \A k \in ConfiguredKeys :
        (hist[k].punctual => MinuteCapKept(k)) /\ DayCapKept(k)

\* C1's case: two check() calls in flight together, same key, same timestamp;
\* the first took the last free slot, the second has just been denied.
C1_LastSlotRace ==
    /\ returned.path = "minute_denied"
    /\ returned.minute_reply # None
    /\ task[1].pc = "fixed"
    /\ KeyOf(task[1]) = KeyOf(returned)
    /\ task[1].now = returned.now
    /\ task[1].minute_result.allowed
    /\ task[1].minute_result.remaining = 0
    /\ hist[KeyOf(returned)].punctual

\* the sliding-window check of task t answers in this step
SlidingAnswers(t) == task[t].pc = "sliding" /\ task'[t].pc # "sliding"

\* the reply and the result of the sliding-window check that answers task t
\* in this step
SlidingReply(t) ==
    IF task'[t].pc = "fixed" THEN task'[t].minute_reply ELSE returned'.minute_reply

SlidingOutcome(t) ==
    IF task'[t].pc = "fixed" THEN task'[t].minute_result
    ELSE returned'.minute_result

\* the k-th check of a window is allowed with remaining = L - k while k <= L,
\* and denied with remaining = 0 and a positive retry_after after that
KthOutcome(result, prior, limit) ==
    IF prior < limit
    THEN result.allowed /\ result.remaining = limit - (prior + 1)
    ELSE ~result.allowed /\ result.remaining = 0 /\ result.retry_after > 0

\* the admitted timestamps less than one window away from `now`
Near(admitted, now) ==
    SelectSeq(admitted, LAMBDA s : now - MinuteWindow < s /\ s < now + MinuteWindow)

\* C2, as the claim states it: on a key that started empty, a sliding-window
\* check all of whose predecessors' timestamps lie within one window of its
\* own is the k-th of that window: allowed with remaining = L - k while
\* k <= L, denied with remaining = 0 and retry_after > 0 once k = L + 1.
C2_AsStated ==
    [][\A t \in Tasks :
         LET k == KeyOf(task[t])
             admitted == hist[k].admitted
         IN  (/\ SlidingAnswers(t)
              /\ SlidingReply(t) # None
              /\ Near(admitted, task[t].now) = admitted)
             => KthOutcome(SlidingOutcome(t), Len(admitted), PerMinute(k))]_vars

\* C2, amended: that holds when every sliding script on the key, this one
\* included, ran in the second its check() had read the clock in; the checks
\* that count are then the admitted ones of the trailing window.
C2_WindowFills ==
    [][\A t \in Tasks :
         LET k == KeyOf(task[t])
         IN  (/\ SlidingAnswers(t)
              /\ SlidingReply(t) # None
              /\ hist'[k].punctual)
             => KthOutcome(SlidingOutcome(t),
                           Len(Near(hist[k].admitted, task[t].now)),
                           PerMinute(k))]_vars

\* C2's case: the window of a key is full after L admissions, and the next
\* check in it has just been denied with a positive retry_after.
C2_Denied ==
    /\ returned.path = "minute_denied"
    /\ returned.minute_reply # None
    /\ hist[KeyOf(returned)].punctual
    /\ Len(Near(hist[KeyOf(returned)].admitted, returned.now))
          = PerMinute(KeyOf(returned))
    /\ returned.result.remaining = 0
    /\ returned.result.retry_after > 0

\* a check() has just returned
Returned == returned.path # "none"

\* C3, as the claim states it: in the life of a daily key, the k-th run of
\* the fixed-window script with limit L answers allowed = 1 and
\* remaining = L - k while k <= L; every later run answers allowed = 0,
\* remaining = 0 and retry_after = the key's TTL, which is > 0.
C3_AsStated ==
    (Returned /\ returned.day_reply # None)
    => LET k == day_hist[DayKeyOf(KeyOf(returned))].calls
           limit == PerDay(KeyOf(returned))
           reply == returned.day_reply
       IN  IF k <= limit
           THEN reply[1] = 1 /\ reply[2] = limit - k
           ELSE /\ reply[1] = 0
                /\ reply[2] = 0
                /\ reply[4] = reply[3]
                /\ reply[4] > 0

\* a call for a configured pair returns open: allowed, with limit =
\* remaining = requests_per_minute and retry_after = 0
ReturnedOpen(r) ==
    /\ r.path # "none"
    /\ HasConfig(r.auth_type, r.operation_type)
          => /\ r.result.allowed
             /\ r.result.limit = PerMinute(KeyOf(r))
             /\ r.result.remaining = PerMinute(KeyOf(r))
             /\ r.result.retry_after = 0

\* C4: a check() called while the global client is absent or not connected
\* (a disabled client never connects), and a check() that returns while the
\* scripts are not loaded, returns open if its pair is configured, whatever
\* the store holds.
C4_FailOpen ==
    [][/\ (issued' # issued /\ (~global_client \/ ~is_connected))
            => ReturnedOpen(returned')
       /\ (returned'.path # "none" /\ ~sliding_window_sha')
            => ReturnedOpen(returned')]_vars

\* C4's case: the client has been closed after the window of a key was
\* filled, and a check() on that key has just returned open.
C4_OpenOverFullWindow ==
    /\ returned.path = "fail_open"
    /\ ~is_connected
    /\ returned.result.allowed
    /\ returned.result.remaining = PerMinute(KeyOf(returned))
    /\ Len(zset[KeyOf(returned)].members) = PerMinute(KeyOf(returned))

\* the requests that are not mirrored into the shadow store
Unwatched == env.scope \ env.watch

\* C5: every decision returned to a subject is the decision the same call
\* gets on the store that has seen none of the other subjects' calls.
C5_SubjectIsolation ==
    (/\ Returned
     /\ KeyOf(returned) \in env.watch
     /\ \A i \in Unwatched : i[1] # returned.user_id)
    => returned.result = returned.sh_result

\* C5's case: subject 1 has used up its per-minute window and its daily pool,
\* and subject 2's check has just been allowed.
C5_OtherSubjectExhausted ==
    /\ Returned
    /\ returned.user_id = 2
    /\ KeyOf(returned) \in env.watch
    /\ returned.day_reply # None
    /\ returned.result.allowed
    /\ Len(zset[<<1, returned.auth_type, returned.operation_type>>].members)
          = PerMinute(KeyOf(returned))
    /\ counter[DayKeyOf(<<1, returned.auth_type, returned.operation_type>>)].count
          >= PerDay(KeyOf(returned))

\* the other of READ and WRITE
OtherGeneral(operation_type) ==
    IF operation_type = "read" THEN "write" ELSE "read"

\* C6: a READ or WRITE check that gets as far as the daily counter is denied
\* when the checks of the other of the two operations, same subject and auth
\* class, have already brought the counter to requests_per_day in this daily
\* window.
C6_SharedGeneralPool ==
    (/\ Returned
     /\ returned.day_reply # None
     /\ returned.operation_type \in {"read", "write"}
     /\ day_calls[<<returned.user_id, returned.auth_type,
                    OtherGeneral(returned.operation_type)>>]
          >= PerDay(KeyOf(returned)))
    => returned.path = "day_denied" /\ ~returned.result.allowed

\* C6's case: READ checks alone have filled the daily counter, and the first
\* WRITE check of the subject, alone in its per-minute window, has just been
\* denied.
C6_WriteDeniedAfterReads ==
    /\ returned.path = "day_denied"
    /\ returned.operation_type = "write"
    /\ day_calls[<<returned.user_id, returned.auth_type, "read">>]
          = PerDay(KeyOf(returned))
    /\ day_calls[KeyOf(returned)] = 1
    /\ hist[KeyOf(returned)].admitted = <<returned.now>>

\* C7: every decision of a check in one daily pool is the decision the same
\* call gets on the store that has seen none of the subject's calls in the
\* other pool.
C7_PoolsIndependent ==
    (/\ Returned
     /\ KeyOf(returned) \in env.watch
     /\ \A i \in Unwatched :
           /\ i[1] = returned.user_id
           /\ (i[3] = "sensitive") # (returned.operation_type = "sensitive"))
    => returned.result = returned.sh_result

\* C7's case: the subject's other daily pool is used up, and a check in this
\* pool has just been allowed.
C7_OtherPoolExhausted ==
    /\ Returned
    /\ KeyOf(returned) \in env.watch
    /\ Unwatched # {}
    /\ \A i \in Unwatched :
          /\ i[1] = returned.user_id
          /\ (i[3] = "sensitive") # (returned.operation_type = "sensitive")
          /\ counter[DayKeyOf(i)].count >= PerDay(i)
    /\ returned.day_reply # None
    /\ returned.result.allowed

\* C8: the step in which a check() starts and the step in which a check()
\* denied by the per-minute window returns leave every daily counter as it
\* was, value and expiry; such a check() has made no fixed-window call.
C8_ShortCircuit ==
    [][/\ issued' # issued => counter' = counter
       /\ (/\ returned'.path # "none"
           /\ returned'.minute_reply # None
           /\ ~returned'.minute_result.allowed)
            => /\ counter' = counter
               /\ returned'.day_reply = None
               /\ returned'.path = "minute_denied"
               /\ returned'.result = returned'.minute_result]_vars

\* C8's case: the subject has a daily counter, and its check has just been
\* denied by the per-minute window.
C8_MinuteDenied ==
    /\ returned.path = "minute_denied"
    /\ returned.minute_reply # None
    /\ counter[DayKeyOf(KeyOf(returned))].count > 0
    /\ counter[DayKeyOf(KeyOf(returned))].expire_at > clock

\* both scripts have answered the check() that has just returned, or the
\* sliding one has and denied
OnConnectedStore ==
    /\ Returned
    /\ returned.minute_reply # None
    /\ returned.minute_result.allowed => returned.day_reply # None

\* the decision of a daily denial, with its reset
DailyDenial(r, reset) ==
    /\ ~r.result.allowed
    /\ r.result.limit = PerDay(KeyOf(r))
    /\ r.result.remaining = 0
    /\ r.result.retry_after = r.day_reply[3]
    /\ r.result.reset = reset

\* the selection among the two results, the reset of a daily denial left open
Selection(r, reset) ==
    IF ~r.minute_result.allowed THEN r.result = r.minute_result
    ELSE IF r.day_reply[1] = 0
         THEN r.result = r.day_result /\ DailyDenial(r, reset)
         ELSE /\ r.result = r.minute_result
              /\ r.result.limit = PerMinute(KeyOf(r))
              /\ r.result.allowed

\* C9, as the claim states it: the per-minute result if it denies; else the
\* daily result if it denies, with limit = requests_per_day, remaining = 0,
\* retry_after = the daily key's TTL and reset = now + that TTL; else the
\* per-minute result.
C9_AsStated ==
    OnConnectedStore => Selection(returned, returned.now + returned.day_reply[3])

\* C9, amended: the reset of a daily denial is now + TTL while the TTL is
\* positive, and now + the daily window when the store reports a TTL of 0.
C9_DecisionSelection ==
    OnConnectedStore
    => Selection(returned,
                 IF returned.day_reply[3] > 0
                 THEN returned.now + returned.day_reply[3]
                 ELSE returned.now + DayWindow)

\* C9's case: a check() allowed by the per-minute window has just been denied
\* by the daily counter, in the last half second of the daily key.
C9_DailyDenialAtExpiry ==
    /\ returned.path = "day_denied"
    /\ returned.minute_reply # None /\ returned.minute_result.allowed
    /\ returned.day_reply # None /\ returned.day_reply[3] = 0
    /\ returned.result.reset = returned.now + DayWindow

\* C10, as the claim states it: every decision check() returns has
\* retry_after > 0 exactly when it denies, and 0 <= remaining <= limit.
C10_AsStated ==
    Returned
    => /\ (returned.result.retry_after > 0) <=> ~returned.result.allowed
       /\ returned.result.remaining >= 0
       /\ returned.result.remaining <= returned.result.limit

\* the sliding script has just denied the check() that returned
MinuteDenied ==
    returned.path = "minute_denied" /\ returned.minute_reply # None

\* C11: a check() denied by the per-minute window, on a key whose scripts
\* have seen non-decreasing timestamps up to and including this one,
\* returns 1 <= retry_after <= MinuteWindow.
C11_RetryAfterInRange ==
    (MinuteDenied /\ hist[KeyOf(returned)].in_order)
    => /\ 1 <= returned.result.retry_after
       /\ returned.result.retry_after <= MinuteWindow

\* C11's case: such a denial, some time after the oldest entry of the window
\* was admitted, so that less than the whole window is left to wait.
C11_DeniedLaterInWindow ==
    /\ MinuteDenied
    /\ hist[KeyOf(returned)].in_order
    /\ zset[KeyOf(returned)].members # <<>>
    /\ Head(zset[KeyOf(returned)].members) < returned.now
    /\ returned.result.retry_after < MinuteWindow

\* the check() that returned ran its per-minute check, which allowed
MinuteAllowed ==
    returned.path \in {"passed", "day_denied"} /\ returned.minute_result.allowed

\* the check() that returned ran its daily check, which allowed
DayAllowed ==
    returned.path = "passed" /\ returned.day_result.allowed

ResetWithin(result, now, window) ==
    now < result.reset /\ result.reset <= now + window

\* C12 as stated: every allowed per-minute result has now < reset <= now +
\* MinuteWindow and every allowed daily result has now < reset <= now +
\* DayWindow.
C12_AsStated ==
    /\ MinuteAllowed => ResetWithin(returned.minute_result, returned.now, MinuteWindow)
    /\ DayAllowed => ResetWithin(returned.day_result, returned.now, DayWindow)

\* C12: every allowed per-minute result computed from a reply of the sliding
\* script has now < reset <= now + MinuteWindow, and every allowed daily
\* result computed from a reply of the fixed script has now < reset <= now +
\* DayWindow; an allowed result made without a reply has reset = 0.
C12_ResetInFuture ==
    /\ MinuteAllowed =>
          IF returned.minute_reply # None
          THEN ResetWithin(returned.minute_result, returned.now, MinuteWindow)
          ELSE returned.minute_result.reset = 0
    /\ DayAllowed =>
          IF returned.day_reply # None
          THEN ResetWithin(returned.day_result, returned.now, DayWindow)
          ELSE returned.day_result.reset = 0

\* C12's case: the daily check allows in the daily key's last half second,
\* where the store reports a TTL of 0.
C12_AllowedAtExpiry ==
    /\ DayAllowed
    /\ returned.day_reply # None
    /\ returned.day_reply[3] = 0
    /\ returned.minute_reply # None
    /\ returned.day_result.reset = returned.now + DayWindow

\* how many of the admitted timestamps lie in the trailing window
\* (t - MinuteWindow, t]
Trailing(admitted, t) ==
    Len(SelectSeq(admitted, LAMBDA s : t - MinuteWindow < s /\ s <= t))

NoBurst(k) ==
    \A t \in 0..MaxClock : Trailing(hist[k].admitted, t) <= PerMinute(k)

\* C13 as stated: on a key whose scripts carried non-decreasing timestamps in
\* execution order, no trailing window (t - MinuteWindow, t] holds more than
\* requests_per_minute admitted timestamps.
C13_AsStated ==
    \A k \in ConfiguredKeys : hist[k].in_order => NoBurst(k)

\* C13: on a key each of whose scripts ran in the second in which its check()
\* read its timestamp, no trailing window (t - MinuteWindow, t] holds more
\* than requests_per_minute admitted timestamps.
C13_NoBoundaryBurst ==
    \A k \in ConfiguredKeys : hist[k].punctual => NoBurst(k)

\* C13's case: the limit was admitted before a multiple of the window, and a
\* check() at that multiple, less than a window later, has just been denied.
C13_DeniedAcrossBoundary ==
    /\ MinuteDenied
    /\ hist[KeyOf(returned)].punctual
    /\ returned.now > 0
    /\ returned.now % MinuteWindow = 0
    /\ Len(zset[KeyOf(returned)].members) = PerMinute(KeyOf(returned))
    /\ \A i \in DOMAIN zset[KeyOf(returned)].members :
          /\ zset[KeyOf(returned)].members[i] < returned.now
          /\ zset[KeyOf(returned)].members[i] > returned.now - MinuteWindow

\* `after` is `kept`, or `kept` with the score `now` added
KeptOrAdded(after, kept, now) ==
    \/ after = kept
    \/ \E i \in DOMAIN after :
          /\ after[i] = now
          /\ kept = SubSeq(after, 1, i - 1) \o SubSeq(after, i + 1, Len(after))

\* The sliding script that answers task t in this step has left of the
\* entries of its key those that Keeps(score, now) selects, has counted
\* them, and has admitted the call iff they were fewer than the limit.
EvictsAllBut(t, Keeps(_, _)) ==
    LET k == KeyOf(task[t])
        now == task[t].now
        kept == SelectSeq(zset[k].members, LAMBDA s : Keeps(s, now))
        allowed == SlidingReply(t)[1] = 1
    IN  /\ allowed <=> Len(kept) < PerMinute(k)
        /\ KeptOrAdded(zset'[k].members, kept, now)
        /\ Len(zset'[k].members) = Len(kept) + (IF allowed THEN 1 ELSE 0)

KeepsFromWindowStart(s, now) == s >= now - MinuteWindow

KeepsAfterWindowStart(s, now) == s > now - MinuteWindow

\* C14 as stated: a sliding-window call with timestamp now evicts exactly the
\* entries with timestamp < now - MinuteWindow before counting; an entry at
\* now - MinuteWindow is kept and counts.
C14_AsStated ==
    [][\A t \in Tasks :
         (SlidingAnswers(t) /\ SlidingReply(t) # None)
         => EvictsAllBut(t, KeepsFromWindowStart)]_vars

\* C14: a sliding-window call with timestamp now evicts exactly the entries
\* with timestamp <= now - MinuteWindow before counting; an entry at
\* now - MinuteWindow is evicted and does not count.
C14_EvictsThroughWindowStart ==
    [][\A t \in Tasks :
         (SlidingAnswers(t) /\ SlidingReply(t) # None)
         => EvictsAllBut(t, KeepsAfterWindowStart)]_vars

\* C14's case: a call has been admitted into a window that held the limit
\* with the entry at now - MinuteWindow counted, and that entry is gone.
C14_AdmittedByEviction ==
    \E t \in Tasks :
        LET k == KeyOf(task[t])
            now == task[t].now
        IN  /\ task[t].pc = "fixed"
            /\ task[t].minute_reply # None
            /\ hist[k].punctual
            /\ clock = now
            /\ \E i \in DOMAIN hist[k].admitted :
                  hist[k].admitted[i] = now - MinuteWindow
            /\ Len(zset[k].members) = PerMinute(k)
            /\ \A i \in DOMAIN zset[k].members :
                  zset[k].members[i] > now - MinuteWindow

\* C15: get_operation_type(method, path) is "sensitive" iff (method, path)
\* is in SENSITIVE_ENDPOINTS, which holds ("GET", "/bookmarks/fetch-metadata")
\* alone; otherwise it is "read" iff the method is exactly "GET"; otherwise
\* it is "write".
C15_Classification ==
    request.by = "get_operation_type" =>
        LET sensitive ==
                /\ request.method = "GET"
                /\ request.path = <<"/bookmarks", "/fetch-metadata">>
        IN  /\ sensitive <=> <<request.method, request.path>> \in SENSITIVE_ENDPOINTS
            /\ request.operation_type \in OperationType
            /\ request.operation_type = "sensitive" <=> sensitive
            /\ request.operation_type = "read"
                  <=> (~sensitive /\ request.method = "GET")
            /\ request.operation_type = "write"
                  <=> (~sensitive /\ request.method # "GET")

\* C15's case: the sensitive endpoint has been classified.
C15_SensitiveClassified ==
    /\ request.by = "get_operation_type"
    /\ <<request.method, request.path>> \in SENSITIVE_ENDPOINTS
    /\ request.operation_type = "sensitive"

\* the pieces of a target that precede its first "?"
BeforeQuery(target) ==
    LET marks == {i \in DOMAIN target : target[i] = "?"}
    IN  IF marks = {} THEN target
        ELSE SubSeq(target, 1, (CHOOSE i \in marks : \A j \in marks : i <= j) - 1)

\* the class of a method and a path that carries no query string
ClassOf(method, path) ==
    IF method = "GET" /\ path = <<"/bookmarks", "/fetch-metadata">> THEN "sensitive"
    ELSE IF method = "GET" THEN "read"
    ELSE "write"

\* C16 as stated: get_operation_type gives a path with a query string the
\* class of the path without it.
C16_AsStated ==
    request.by = "get_operation_type" =>
        request.operation_type = ClassOf(request.method, BeforeQuery(request.path))

\* C16: check_rate_limit classifies the path of the request URL, which
\* carries no query string, so a target with a query string gets the class
\* of the target without it; get_operation_type itself matches the path it
\* is given exactly, query string included.
C16_QueryIgnoredByDependency ==
    /\ request.by = "check_rate_limit" =>
          request.operation_type = ClassOf(request.method, BeforeQuery(request.target))
    /\ request.by = "get_operation_type" =>
          request.operation_type = ClassOf(request.method, request.path)

\* C16's case: a request for the sensitive endpoint with a query string has
\* gone through check_rate_limit.
C16_SensitiveWithQuery ==
    /\ request.by = "check_rate_limit"
    /\ request.method = "GET"
    /\ request.target = <<"/bookmarks", "/fetch-metadata", "?", "x=1">>
    /\ request.operation_type = "sensitive"

PatReadBelowAuth0Read(table) ==
    table[<<"pat", "read">>].requests_per_minute
        < table[<<"auth0", "read">>].requests_per_minute

\* C17 as stated: in the RATE_LIMITS table of core/rate_limiter.py and in
\* that of core/rate_limit_config.py the per-minute limit of (PAT, READ) is
\* strictly less than that of (AUTH0, READ), and a check() for PAT READ
\* reports the smaller limit.
C17_AsStated ==
    /\ PatReadBelowAuth0Read(RATE_LIMITS)
    /\ PatReadBelowAuth0Read(rate_limit_config_RATE_LIMITS)
    /\ (Returned /\ KeyOf(returned) = <<returned.user_id, "pat", "read">>
          /\ returned.path # "day_denied")
         => returned.result.limit
              < RATE_LIMITS[<<"auth0", "read">>].requests_per_minute

\* C18: a check() for a pair without policy entry returns at once, in every
\* state of the store and of the client, allowed with limit 0, remaining 0
\* and retry_after 0, and leaves every sorted set and every counter as it was.
C18_UnconfiguredAllowed ==
    [][issued' # issued =>
         /\ \A t \in Tasks :
               task'[t] # task[t]
               => HasConfig(task'[t].auth_type, task'[t].operation_type)
         /\ (Returned' /\ ~HasConfig(returned'.auth_type, returned'.operation_type))
            => /\ returned'.result.allowed
               /\ returned'.result.limit = 0
               /\ returned'.result.remaining = 0
               /\ returned'.result.retry_after = 0
               /\ zset' = zset
               /\ counter' = counter]_vars

\* C18's case: a check() for PAT + SENSITIVE has returned on a connected
\* store that holds entries and counts of the same subject.
C18_UnconfiguredOnBusyStore ==
    /\ returned.path = "unconfigured"
    /\ KeyOf(returned) = <<1, "pat", "sensitive">>
    /\ global_client /\ is_connected
    /\ sliding_window_sha /\ fixed_window_sha
    /\ zset[<<1, "auth0", "sensitive">>].members # <<>>
    /\ counter[<<1, "sensitive">>].count > 0

\* a store call of the check() that returned failed on an open client
StoreCallFailed == Returned /\ (returned.minute_error \/ returned.day_error)

\* what a check against a disconnected store gives for a limit
OpenResult(limit) ==
    [allowed |-> TRUE, limit |-> limit, remaining |-> limit, reset |-> 0,
     retry_after |-> 0]

\* C19 as stated: a check() one of whose store calls failed returns
\* allowed = true.
C19_AsStated ==
    StoreCallFailed => returned.result.allowed

\* C19: a window whose store call failed gives the result of a disconnected
\* store (allowed, remaining = limit); check() returns allowed unless the
\* per-minute call failed and the daily call answered with a denial, which
\* is then returned.
C19_FailedCallOpensItsWindow ==
    StoreCallFailed =>
        /\ returned.minute_error =>
              /\ returned.minute_reply = None
              /\ returned.minute_result = OpenResult(PerMinute(KeyOf(returned)))
        /\ returned.day_error =>
              /\ returned.day_reply = None
              /\ returned.day_result = OpenResult(PerDay(KeyOf(returned)))
              /\ returned.result = returned.minute_result
        /\ returned.result.allowed
              <=> ~(returned.day_reply # None /\ returned.day_reply[1] = 0)
        /\ ~returned.result.allowed =>
              /\ returned.minute_error
              /\ returned.path = "day_denied"
              /\ returned.result = returned.day_result

\* C19's case: the per-minute call of a check() failed on a connected client
\* whose store holds a full window for the key, and the check() was allowed.
C19_AllowedOverFullWindow ==
    /\ returned.minute_error
    /\ returned.result.allowed
    /\ global_client /\ is_connected
    /\ Len(zset[KeyOf(returned)].members) = PerMinute(KeyOf(returned))

\* C20 as stated: a disabled client makes no connection attempt and is never
\* connected; is_connected is true only once the ping of a connect() has
\* succeeded (and until close()), so not while the ping is awaited nor after
\* it has failed.
C20_AsStated ==
    /\ ~enabled => (~is_connected /\ conn_pc = "idle")
    /\ is_connected => conn_pc # "ping"

\* the sentinel of a client operation
Sentinel(op) ==
    IF op \in {"ping", "setex", "delete"} THEN FALSE ELSE None

\* C21: an operation called on a client that is not connected (ping, get,
\* setex, delete, evalsha, script_load) returns its sentinel (False for ping,
\* setex and delete, None for get, evalsha and script_load) and leaves the
\* store's keys, sorted sets, counters and scripts as they were.
C21_DisconnectedSentinel ==
    [][(called' # called /\ ~is_connected) =>
         /\ called'.op \in {"ping", "get", "setex", "delete", "evalsha",
                            "script_load"}
         /\ ~called'.connected
         /\ called'.result = Sentinel(called'.op)
         /\ UNCHANGED <<strings, script_cache, zset, counter>>
         /\ UNCHANGED <<clientVars, faults>>]_vars

\* C21's case: setex has just returned False on a client that was closed
\* after it had stored a key, and the key is still in the store.
C21_SetexAfterClose ==
    /\ called.op = "setex"
    /\ ~called.connected
    /\ called.result = FALSE
    /\ called.count = 2
    /\ \E k \in StringKeys : strings[k] # NoString

\* C22: check_rate_limit raises RateLimitExceededError iff check() returned
\* allowed = false; the error carries the result check() returned; and
\* request.state.rate_limit_info is written, with the limit, remaining and
\* reset of the result, iff the result is allowed.
C22_RaisesIffDenied ==
    Returned =>
        LET d == returned.dependency
        IN  /\ d.raised <=> ~returned.result.allowed
            /\ d.raised => (d.error = returned.result /\ d.rate_limit_info = <<>>)
            /\ ~d.raised =>
                  d.rate_limit_info = <<returned.result.limit,
                                        returned.result.remaining,
                                        returned.result.reset>>

\* C22's case: the daily window has denied, and check_rate_limit has raised
\* with the daily result.
C22_RaisedWithDailyResult ==
    /\ returned.path = "day_denied"
    /\ returned.dependency.raised
    /\ returned.dependency.error = returned.day_result
    /\ returned.dependency.error.limit = PerDay(KeyOf(returned))

\* C23: a fixed-window script sets the expiry of its key, to DayWindow from
\* the time it runs, only when it takes the counter from 0 to 1; every later
\* script on the key, allowing or denying, leaves the expiry as it was, so
\* the key expires DayWindow after the first script of its window ran.
C23_FirstWriterFixesWindow ==
    [][\A k \in DayKeys :
         (counter'[k].count = counter[k].count + 1) =>
            /\ counter'[k].expire_at =
                  IF counter[k].count = 0 THEN clock + DayWindow
                  ELSE counter[k].expire_at
            /\ counter'[k].expire_at = day_hist'[k].opened + DayWindow]_vars

\* C23's case: the daily window has denied a check() in a second later than
\* the one in which the window opened.
C23_DeniedLaterInWindow ==
    /\ returned.path = "day_denied"
    /\ returned.day_reply # None
    /\ clock > day_hist[DayKeyOf(KeyOf(returned))].opened
    /\ counter[DayKeyOf(KeyOf(returned))].count > PerDay(KeyOf(returned))

\* every key the store holds expires within its window
ExpiryPending ==
    /\ \A k \in MinuteKeys :
          zset[k] # NoZset =>
              (clock < zset[k].expire_at /\ zset[k].expire_at <= clock + MinuteWindow)
    /\ \A k \in DayKeys :
          counter[k] # NoCounter =>
              (clock < counter[k].expire_at
               /\ counter[k].expire_at <= clock + DayWindow)

NoQuotaState ==
    /\ \A k \in MinuteKeys : zset[k] = NoZset
    /\ \A k \in DayKeys : counter[k] = NoCounter

\* no request is in flight, none will start, and the clock has a daily
\* window left to run
RequestsStopped ==
    /\ \A t \in Tasks : task[t].pc = "idle"
    /\ issued = MaxChecks
    /\ clock + DayWindow <= env.horizon

\* a check() that finds no key of its subject is allowed with
\* remaining = limit - 1: its sliding script admits it with that remaining,
\* and its fixed script allows it, so that check() returns the per-minute
\* result
FreshCheckAllowed ==
    \A t \in Tasks :
        LET k == KeyOf(task[t])
        IN  /\ (SlidingAnswers(t) /\ SlidingReply(t) # None /\ zset[k] = NoZset)
               => /\ SlidingOutcome(t).allowed
                  /\ SlidingOutcome(t).remaining = PerMinute(k) - 1
                  /\ ~Returned'
            /\ (task[t].pc = "fixed" /\ Returned' /\ returned'.day_reply # None
                 /\ counter[DayKeyOf(k)] = NoCounter)
               => /\ returned'.result.allowed
                  /\ returned'.result = task[t].minute_result

\* C24: every per-minute key and every daily key the store holds has a
\* pending expiry of at most its window; once the requests have stopped the
\* store eventually holds no key at all, with no delete; and a check() on a
\* connected store that holds no key of its subject is allowed with
\* remaining = limit - 1.
C24_StateSelfExpires ==
    /\ []ExpiryPending
    /\ [][FreshCheckAllowed]_vars
    /\ (RequestsStopped ~> NoQuotaState)

\* C24's case: the keys of the subject have expired, and its next check() has
\* just been allowed with remaining = limit - 1 in a new daily window.
C24_AllowedAfterExpiry ==
    /\ returned.path = "passed"
    /\ returned.minute_reply # None /\ returned.day_reply # None
    /\ issued > 1
    /\ returned.result.remaining = PerMinute(KeyOf(returned)) - 1
    /\ day_hist[DayKeyOf(KeyOf(returned))].opened >= DayWindow
    /\ counter[DayKeyOf(KeyOf(returned))].count = 1

RECURSIVE SumOver(_, _)
SumOver(f, inputs) ==
    IF inputs = {} THEN 0
    ELSE LET i == CHOOSE x \in inputs : TRUE
         IN  f[i] + SumOver(f, inputs \ {i})

\* the fixed scripts run in the open daily window for a subject and a pool,
\* whatever the auth class and the operation of their check()
PoolCalls(user_id, pool) ==
    SumOver(day_calls,
            {i \in Inputs : i[1] = user_id /\ (i[3] = "sensitive") = (pool = "sensitive")})

\* C25: the daily counter of a subject and a pool counts the checks of both
\* auth classes, and a check that gets a reply from the daily script is
\* allowed by it iff that count, its own call included, is at most the
\* requests_per_day of its own auth class and operation.
C25_DailyCounterSharedByAuthClasses ==
    /\ \A k \in DayKeys : counter[k].count = PoolCalls(k[1], k[2])
    /\ (Returned /\ returned.day_reply # None) =>
          (returned.day_result.allowed
             <=> PoolCalls(returned.user_id, DayKeyOf(KeyOf(returned))[2])
                   <= PerDay(KeyOf(returned)))

\* C25's case: the AUTH0 checks of a subject have used the whole of PAT's
\* requests_per_day, and the subject's first PAT check has just been denied
\* by the daily window.
C25_PatDeniedAfterAuth0 ==
    /\ returned.path = "day_denied"
    /\ returned.auth_type = "pat"
    /\ day_calls[KeyOf(returned)] = 1
    /\ day_calls[<<returned.user_id, "auth0", returned.operation_type>>]
          = PerDay(KeyOf(returned))

HintKept(t) ==
    LET k == KeyOf(task[t])
    IN  (/\ SlidingAnswers(t)
         /\ SlidingReply(t) # None
         /\ hist[k].retry_at # -1)
        => (SlidingOutcome(t).allowed <=> task[t].now >= hist[k].retry_at)

\* C27 as stated: after a per-minute denial at `now` with retry_after = r,
\* and until another request is admitted on the key, every check with a
\* timestamp before now + r is denied by the per-minute window and every
\* check with a timestamp from now + r on passes it.
C27_AsStated ==
    [][\A t \in Tasks : HintKept(t)]_vars

\* C27: that holds for the checks whose sliding script runs in the second in
\* which they read their timestamp.
C27_RetryHintExact ==
    [][\A t \in Tasks : task[t].now = clock => HintKept(t)]_vars

\* C27's case: a check denied with a retry hint has been followed by a check
\* at the time the hint named, which the per-minute window has just admitted.
C27_AdmittedAtHint ==
    \E t \in Tasks :
        LET k == KeyOf(task[t])
        IN  /\ task[t].pc = "fixed"
            /\ task[t].minute_reply # None
            /\ task[t].now = clock
            /\ task[t].minute_reply[1] = 1
            /\ task[t].minute_before = PerMinute(k)
            /\ hist[k].hint_met
            /\ hist[k].retry_at = -1
            /\ hist[k].admitted[Len(hist[k].admitted)] = clock
            /\ Len(hist[k].admitted) = PerMinute(k) + 1

\* C28: whatever the interleaving of the checks and the order of their
\* timestamps, the per-minute entry set of a key never holds more entries
\* than the requests_per_minute of the key's (auth class, operation class).
C28_EntrySetBounded ==
    \A k \in MinuteKeys :
        /\ HasConfig(k[2], k[3]) => Len(zset[k].members) <= PerMinute(k)
        /\ ~HasConfig(k[2], k[3]) => zset[k].members = <<>>

\* C28's case: the set of a key is full, and a concurrent check with a
\* timestamp older than the newest entry is in flight to it.
C28_FullSetOutOfOrder ==
    \E k \in MinuteKeys : \E t \in Tasks :
        /\ HasConfig(k[2], k[3])
        /\ Len(zset[k].members) = PerMinute(k)
        /\ task[t].pc = "sliding"
        /\ KeyOf(task[t]) = k
        /\ task[t].now < zset[k].members[Len(zset[k].members)]

\* the fixed-window script has never been registered: connect() has not set
\* its handle
FixedUnset == ~fixed_window_sha

\* C29: when _load_scripts fails at its second script_load, connect() returns
\* with the client connected and the sliding-window handle set.  While the
\* fixed-window handle is unset no daily counter is written, no check() is
\* denied by the daily window and every check() that gets past the per-minute
\* window carries the daily fail-open result; the sliding script still
\* decides the per-minute window, denying when the set is full.
C29_MinuteOnlyWithoutFixed ==
    /\ [](FixedUnset =>
            /\ \A d \in DayKeys : counter[d] = NoCounter
            /\ \A t \in Tasks : task[t].pc # "fixed"
            /\ returned.path # "day_denied"
            /\ returned.path = "passed" =>
                  /\ returned.day_reply = None
                  /\ returned.day_result = FailOpen(PerDay(KeyOf(returned)))
                  /\ returned.result.allowed)
    /\ [][/\ (conn_pc = "load_fixed" /\ conn_pc' = "idle") =>
                (client' /\ sliding_window_sha')
          /\ \A t \in Tasks :
                LET k == KeyOf(task[t])
                    kept == SelectSeq(zset[k].members,
                                      LAMBDA s : s > task[t].now - MinuteWindow)
                IN  (FixedUnset /\ SlidingAnswers(t) /\ SlidingReply(t) # None) =>
                      /\ SlidingOutcome(t).allowed <=> Len(kept) < PerMinute(k)
                      /\ ~SlidingOutcome(t).allowed =>
                            /\ returned'.path = "minute_denied"
                            /\ ~returned'.result.allowed
                            /\ returned'.dependency.raised]_vars

\* C29's case: connected with the sliding-window handle set and the
\* fixed-window handle unset, check() has admitted a full window of requests
\* and has just denied one from the per-minute window.
C29_MinuteDeniedWithoutFixed ==
    /\ FixedUnset
    /\ sliding_window_sha
    /\ client
    /\ conn_pc = "idle"
    /\ returned.path = "minute_denied"
    /\ Len(hist[KeyOf(returned)].admitted) = PerMinute(KeyOf(returned))
    /\ \A d \in DayKeys : counter[d] = NoCounter

\* C30 as stated: every per-minute denial returns retry_after <= MinuteWindow,
\* also when the scripts of the key ran out of the order of their timestamps.
C30_AsStated ==
    MinuteDenied => returned.result.retry_after <= MinuteWindow

\* C30: a per-minute denial returns a retry_after of at least 1 that exceeds
\* MinuteWindow by no more than the check's timestamp lags the newest
\* timestamp the scripts of the key have carried.
C30_RetryAfterBoundedByLag ==
    MinuteDenied
    => /\ 1 <= returned.result.retry_after
       /\ returned.result.retry_after
             <= MinuteWindow + (hist[KeyOf(returned)].last_now - returned.now)

\* C30's case: a check() read its timestamp, reached the store after a check
\* with a later timestamp, and was denied by the per-minute window.
C30_StaleCheckDenied ==
    /\ MinuteDenied
    /\ ~hist[KeyOf(returned)].in_order
    /\ returned.now < hist[KeyOf(returned)].last_now
    /\ returned.result.retry_after > MinuteWindow

====
